---- MODULE Spec2Model ----
(***************************************************************************)
(* Model of the image scan-and-download pipeline of the Electron main      *)
(* process (src/src/main.ts) and of the renderer's download loop           *)
(* (src/src/renderer/setupScreen.ts).                                      *)
(*                                                                         *)
(*   SpecSplit    - the batch split of check-images as a pure function     *)
(*   SpecNormalize - the work list of check-images as a pure function of   *)
(*                  the rows and the sample URL                            *)
(*   SpecCheck    - the check-images handler: browser launches, four       *)
(*                  contexts walking their slices, progress events,        *)
(*                  cleanup, together with the cancel-download handler     *)
(*   SpecDownload - the renderer's downloadImagesInBatches driving the     *)
(*                  download-single-image handler and downloadImage        *)
(*   SpecBatches  - downloadImagesInBatches over longer lists, each        *)
(*                  download-single-image call taken as one step           *)
(***************************************************************************)
EXTENDS Integers, Sequences, FiniteSets, TLC

\* ------------------------------------------------------------------ bounds
\* longest work list handed to the batch split
MaxProducts == 17
\* longest work list with repeated identifiers handed to the batch split
MaxDupLen == 5
\* most rows in the csvData handed to check-images
MaxRows == 5
\* most descriptors in the list handed to the download stage
MaxImages == 2
\* most rows in the csvData handed to the identifier normalizer
MaxNormRows == 2
\* most descriptors in the list handed to the download stage when each
\* download-single-image call is taken as one step
MaxBatchImages == 5

\* ------------------------------------------------------- program constants
CONCURRENT_BROWSERS == 4

VARIABLES
    workList,             \* SpecSplit: the `products` array given to the split
    slices,               \* SpecSplit: the `batches` array built from it
    splitDone,            \* SpecSplit: the split has run
    isDownloadCancelled,  \* main.ts:11, the process-wide cancellation flag
    csvData,              \* check-images params: the parsed rows
    sampleUrl,            \* check-images params: the sample product URL
    chkPc,                \* where the check-images handler stands
    products,             \* check-images: the work list {url, productId}
    browsers,             \* check-images: the launched sessions, "open" or "closed"
    batches,              \* check-images: one {start, end, products} per browser
    ctx,                  \* check-images: per context, the item it is in, where its
                          \*   call stands, and how many pages it has open
    allImageUrls,         \* check-images: the descriptors pushed so far
    processedProducts,    \* check-images: the shared progress counter
    progressEvents,       \* every 'download-progress' message sent, in order
    completeEvents,       \* every 'download-complete' message sent, in order
    chkResult,            \* <<>> or <<the value check-images resolved with>>
    outcome,              \* per work item: how its call of checkProductImages ended,
                          \*   what it returned, how many elements the page matched
    attempts,             \* per work item: how many checkProductImages calls it got
    launchFailedAt,       \* 0, or the index of the puppeteer.launch that threw
    runPc,                \* where the renderer's start handler stands
    imageUrls,            \* renderer: checkResult.imageUrls
    checkRejected,        \* renderer: the checkImages call rejected
    groupStart,           \* downloadImagesInBatches: the loop variable i
    workers,              \* per descriptor: its download-single-image call
    files,                \* the disk: path -> bytes, the bytes named by their URL
    domainFolder,         \* the domain folder exists
    successCount,         \* downloadImagesInBatches: successCount
    failureCount,         \* downloadImagesInBatches: failureCount
    processedCount,       \* downloadImagesInBatches: processedCount
    progressText,         \* every update of the progress bar and text, in order
    status,               \* <<>> or <<the final status the start handler showed>>
    cancelSnap,           \* <<>> or <<what held when the flag was set mid-stage>>
    pageSrcs,             \* SpecResolve: the srcs page.$$eval returned, null as <<>>
    resolveId,            \* SpecResolve: the productId the page is resolved for
    resolved              \* SpecResolve: <<>> or <<what checkProductImages returned>>

splitVars == <<workList, slices, splitDone>>

checkVars == <<csvData, sampleUrl, chkPc, products, browsers, batches, ctx,
               allImageUrls, processedProducts, chkResult, outcome, attempts,
               launchFailedAt>>

busVars == <<isDownloadCancelled, progressEvents, completeEvents>>

dlVars == <<runPc, imageUrls, checkRejected, groupStart, workers, files,
            domainFolder, successCount, failureCount, processedCount, progressText,
            status, cancelSnap>>

resVars == <<pageSrcs, resolveId, resolved>>

vars == <<splitVars, checkVars, busVars, dlVars, resVars>>

\* ------------------------------------------------------------------ helpers
Min(a, b) == IF a < b THEN a ELSE b

\* Math.ceil(a / b) for a >= 0, b > 0
Ceil(a, b) == (a + b - 1) \div b

RECURSIVE Concat(_)
Concat(ss) == IF ss = <<>> THEN <<>> ELSE Head(ss) \o Concat(Tail(ss))

\* Array.prototype.slice(start, end) for start, end >= 0: both ends are
\* clamped to the length, and an empty array comes back when start >= end.
Slice(s, start, end) ==
    LET from == Min(start, Len(s))
        to   == Min(end, Len(s))
    IN  IF from >= to THEN <<>> ELSE [i \in 1..(to - from) |-> s[from + i]]

\* ---------------------------------------------------------- the batch split
BatchSizeFloor(totalProducts) == totalProducts \div CONCURRENT_BROWSERS

\* const batchSize = Math.ceil(totalProducts / CONCURRENT_BROWSERS)
BatchSize(totalProducts) == Ceil(totalProducts, CONCURRENT_BROWSERS)

\* browsers.map((browser, index) => ...): one batch per launched browser,
\* with the code's start and end kept next to the slice.
Batches(items, nBrowsers) ==
    LET totalProducts == Len(items)
        batchSize     == BatchSize(totalProducts)
    IN  [k \in 1..nBrowsers |->
            LET index == k - 1
                start == index * batchSize
                end   == Min(start + batchSize, totalProducts)
            IN  [start |-> start, end |-> end,
                 products |-> Slice(items, start, end)]]

\* ------------------------------------------------------ identifier normalizer
QUOTE == "\""

Digits == {"0", "1", "2", "3", "4", "5", "6", "7", "8", "9"}

DigitOf == <<"0", "1", "2", "3", "4", "5", "6", "7", "8", "9">>

IdxAlwaysZero(n) == <<"0">>

\* Number.prototype.toString() for n >= 0, as a sequence of characters
RECURSIVE IdxToString(_)
IdxToString(n) ==
    IF n < 10 THEN <<DigitOf[n + 1]>>
    ELSE IdxToString(n \div 10) \o <<DigitOf[(n % 10) + 1]>>

\* .replace(/"/g, '')
StripQuotes(s) == SelectSeq(s, LAMBDA c : c # QUOTE)

PadOneMore(s, targetLength, padChar) == <<padChar>> \o s

\* String.prototype.padStart(targetLength, padChar): a string that is already
\* long enough comes back as it is
PadStart(s, targetLength, padChar) ==
    IF Len(s) >= targetLength THEN s
    ELSE [i \in 1..(targetLength - Len(s)) |-> padChar] \o s

\* the token '{productId}' of the URL pattern, kept as one element
PLACEHOLDER == "{productId}"

\* the first index at which /\d{12}/ matches, 0 when it does not
FirstDigitRun(s) ==
    LET hits == {i \in 1..Len(s) :
                    /\ i + 11 <= Len(s)
                    /\ \A j \in i..(i + 11) : s[j] \in Digits}
    IN  IF hits = {} THEN 0 ELSE CHOOSE i \in hits : \A j \in hits : i <= j

\* sampleUrl.replace(/\d{12}/, '{productId}')
UrlPattern(url) ==
    LET i == FirstDigitRun(url)
    IN  IF i = 0 THEN url
        ELSE SubSeq(url, 1, i - 1) \o <<PLACEHOLDER>> \o SubSeq(url, i + 12, Len(url))

\* urlPattern.replace('{productId}', paddedProductId): the first occurrence
FillPattern(pattern, paddedProductId) ==
    LET hits == {i \in 1..Len(pattern) : pattern[i] = PLACEHOLDER}
    IN  IF hits = {} THEN pattern
        ELSE LET i == CHOOSE h \in hits : \A j \in hits : h <= j
             IN  SubSeq(pattern, 1, i - 1) \o paddedProductId
                     \o SubSeq(pattern, i + 1, Len(pattern))

\* the configured identifier field
selectedProductIdField == "id"

\* row[selectedProductIdField]; <<>> stands for both '' and undefined, the
\* two values the filter drops
CellOf(row) ==
    IF selectedProductIdField \in DOMAIN row THEN row[selectedProductIdField] ELSE <<>>

FieldFoundAlways(rows) == TRUE

\* headers.indexOf(selectedProductIdField) !== -1, headers = keys of rows[0] || {}
FieldFound(rows) == rows # <<>> /\ selectedProductIdField \in DOMAIN rows[1]

PadOnly(cell) == PadStart(cell, 12, "0")

\* lines 316-317: cleanProductId, then paddedProductId
NormalizeId(cell) == PadStart(StripQuotes(cell), 12, "0")

\* rows.filter(row => row[field]).map(row => ({url, productId}))
ProductsOf(rows, url) ==
    LET kept    == SelectSeq(rows, LAMBDA row : CellOf(row) # <<>>)
        pattern == UrlPattern(url)
    IN  [i \in 1..Len(kept) |->
            LET paddedProductId == NormalizeId(CellOf(kept[i]))
            IN  [url |-> FillPattern(pattern, paddedProductId),
                 productId |-> paddedProductId]]

\* -------------------------------------------------------- page image resolver
JPG == <<".", "j", "p", "g">>

\* the characters \w matches, among those the modelled URLs are written in
WordChars == Digits \cup {"_", "a", "b", "c", "g", "j", "p", "x"}

IncludesAnything(s, sub) == TRUE

\* imgSrc.includes(productId)
Includes(s, sub) ==
    \E i \in 1..(Len(s) - Len(sub) + 1) : SubSeq(s, i, i + Len(sub) - 1) = sub

HasAt(s, i, sub) == i + Len(sub) - 1 <= Len(s) /\ SubSeq(s, i, i + Len(sub) - 1) = sub

\* imgSrc.match(new RegExp(`${productId}(?:_(\\w+))?\\.jpg`)) tried at index i:
\* <<>> when no match starts there, else <<captured token>>, the token being
\* <<>> when the optional group took no part in the match
MatchAt(s, i, productId) ==
    LET j == i + Len(productId)
        wordEnd == CHOOSE m \in j..Len(s) :
                      /\ \A n \in (j + 1)..m : s[n] \in WordChars
                      /\ (m = Len(s) \/ s[m + 1] \notin WordChars)
    IN  IF ~HasAt(s, i, productId) THEN <<>>
        ELSE IF HasAt(s, j, JPG) THEN << <<>> >>
        ELSE IF /\ j <= Len(s)
                /\ s[j] = "_"
                /\ wordEnd > j
                /\ HasAt(s, wordEnd + 1, JPG)
             THEN <<SubSeq(s, j + 1, wordEnd)>>
        ELSE <<>>

\* match && match[1]: the capture of the leftmost match, <<>> when there is
\* no match or the match has no capture
CapturedToken(s, productId) ==
    LET hits == {i \in 1..Len(s) : MatchAt(s, i, productId) # <<>>}
    IN  IF hits = {} THEN <<>>
        ELSE MatchAt(s, CHOOSE i \in hits : \A j \in hits : i <= j, productId)[1]

\* lines 72-92: the loop over urls.entries(); a missing src is <<>>
RECURSIVE DescriptorsFrom(_, _, _)
DescriptorsFrom(urls, idx, productId) ==
    IF idx >= Len(urls) THEN <<>>
    ELSE LET imgSrc == urls[idx + 1]
             token  == CapturedToken(imgSrc, productId)
             suffix == IF token # <<>> THEN token ELSE IdxToString(idx)
         IN  IF imgSrc = <<>> \/ ~Includes(imgSrc, productId)
             THEN DescriptorsFrom(urls, idx + 1, productId)
             ELSE <<[url |-> imgSrc, productId |-> productId, suffix |-> suffix]>>
                      \o DescriptorsFrom(urls, idx + 1, productId)

OneDescriptorAlways(urls, productId) ==
    <<[url |-> <<>>, productId |-> productId, suffix |-> <<"0">>]>>

\* checkProductImages once the page has loaded: the srcs of the matched
\* elements in, the descriptors out
ImageUrlsOf(urls, productId) ==
    IF Len(urls) = 0 THEN <<>> ELSE DescriptorsFrom(urls, 0, productId)

\* Math.round((current / total) * 100) for total > 0
Percent(current, total) == (200 * current + total) \div (2 * total)

\* --------------------------------------------- states before any handler runs
CheckIdle ==
    /\ csvData = <<>>
    /\ sampleUrl = <<>>
    /\ chkPc = "idle"
    /\ products = <<>>
    /\ browsers = <<>>
    /\ batches = <<>>
    /\ ctx = <<>>
    /\ allImageUrls = <<>>
    /\ processedProducts = 0
    /\ chkResult = <<>>
    /\ outcome = <<>>
    /\ attempts = <<>>
    /\ launchFailedAt = 0

BusIdle ==
    /\ isDownloadCancelled = FALSE
    /\ progressEvents = <<>>
    /\ completeEvents = <<>>

DownloadIdle ==
    /\ runPc = "idle"
    /\ imageUrls = <<>>
    /\ checkRejected = FALSE
    /\ groupStart = 0
    /\ workers = <<>>
    /\ files = <<>>
    /\ domainFolder = FALSE
    /\ successCount = 0
    /\ failureCount = 0
    /\ processedCount = 0
    /\ progressText = <<>>
    /\ status = <<>>
    /\ cancelSnap = <<>>

ResolveIdle ==
    /\ pageSrcs = <<>>
    /\ resolveId = <<>>
    /\ resolved = <<>>

\* work lists of distinct items 1..n
Ramp(n) == [i \in 1..n |-> i]

SplitInputs ==
    {Ramp(n) : n \in 0..MaxProducts}
        \cup UNION {[1..n -> {1, 2}] : n \in 0..MaxDupLen}

SplitInit ==
    /\ workList \in SplitInputs
    /\ slices = <<>>
    /\ splitDone = FALSE
    /\ ResolveIdle
    /\ CheckIdle
    /\ BusIdle
    /\ DownloadIdle

SplitProducts ==
    /\ ~splitDone
    /\ slices' = Batches(workList, CONCURRENT_BROWSERS)
    /\ splitDone' = TRUE
    /\ UNCHANGED <<workList, checkVars, busVars, dlVars, resVars>>

SplitNext == SplitProducts

SpecSplit == SplitInit /\ [][SplitNext]_vars

\* ------------------------------------------------------ the normalizer alone
TwelveDigits == <<"1", "2", "3", "4", "5", "6", "7", "8", "9", "0", "1", "2">>

\* the cells a row can hold under the identifier field: empty, short, quoted,
\* with a quote inside, quotes only, already 12 digits, 13 digits
NormCells ==
    { <<>>,
      <<"1">>,
      <<QUOTE, "2", QUOTE>>,
      <<"3", QUOTE, "4">>,
      <<QUOTE, QUOTE>>,
      TwelveDigits,
      TwelveDigits \o <<"3">> }

NormInputs == UNION {[1..n -> {[id |-> c] : c \in NormCells}] : n \in 0..MaxNormRows}

SampleRun == <<"0", "0", "0", "0", "0", "0", "0", "0", "0", "0", "9", "9">>

\* sample URLs that pass the renderer's test /\d{12}/ (setupScreen.ts 245):
\* the run at the end, in the middle, followed by a second run, and as the
\* head of a run of 13 digits
NormUrls ==
    { <<"s", "/">> \o SampleRun,
      <<"s", "/">> \o SampleRun \o <<"/", "x">>,
      <<"s", "/">> \o SampleRun \o <<"/">> \o TwelveDigits,
      <<"s", "/">> \o SampleRun \o <<"1">> }

NormInit ==
    /\ csvData \in NormInputs
    /\ sampleUrl \in NormUrls
    /\ chkPc = "idle"
    /\ products = <<>>
    /\ browsers = <<>>
    /\ batches = <<>>
    /\ ctx = <<>>
    /\ allImageUrls = <<>>
    /\ processedProducts = 0
    /\ chkResult = <<>>
    /\ outcome = <<>>
    /\ attempts = <<>>
    /\ launchFailedAt = 0
    /\ BusIdle
    /\ DownloadIdle
    /\ workList = <<>>
    /\ slices = <<>>
    /\ splitDone = FALSE
    /\ ResolveIdle

\* lines 300-324: the field check, then the work list built from the rows
PrepareProducts ==
    /\ chkPc = "idle"
    /\ IF FieldFound(csvData)
       THEN /\ products' = ProductsOf(csvData, sampleUrl)
            /\ chkPc' = "prepared"
       ELSE /\ chkPc' = "rejected"
            /\ UNCHANGED products
    /\ UNCHANGED <<csvData, sampleUrl, browsers, batches, ctx, allImageUrls,
                   processedProducts, chkResult, outcome, attempts, launchFailedAt,
                   busVars, dlVars, splitVars, resVars>>

NormNext == PrepareProducts

SpecNormalize == NormInit /\ [][NormNext]_vars

\* ------------------------------------------------------- check-images handler
\* the rows Papa.parse hands over all carry the same header: either the
\* identifier field or another one; row i holds an empty cell or the cell of
\* product i, written with quotes around it when i is even
IdCell(i) ==
    IF i % 2 = 0 THEN <<QUOTE, DigitOf[i + 1], QUOTE>> ELSE <<DigitOf[i + 1]>>

RECURSIVE RowLists(_)
RowLists(n) ==
    IF n = 0 THEN {<<>>}
    ELSE {Append(r, [id |-> c]) : r \in RowLists(n - 1), c \in {<<>>, IdCell(n)}}

CheckInputs ==
    UNION {RowLists(n) : n \in 0..MaxRows}
        \cup {[i \in 1..n |-> [sku |-> IdCell(i)]] : n \in 1..MaxRows}

SampleUrls == {<<"s", "/", "0", "0", "0", "0", "0", "0", "0", "0", "0", "0", "9", "9">>}

\* what a product page can hold: the srcs of its matched image elements
CDN == <<"c", "/">>

TokSrc(productId, token) == CDN \o productId \o <<"_">> \o token \o JPG

PlainSrc(productId) == CDN \o productId \o JPG

OtherSrc == CDN \o <<"x">> \o JPG

\* either no element matched, or four did: one without a src, one of another
\* product, one named without a token, one named with the token 2
PagesFor(productId) ==
    { <<>>,
      << <<>>, OtherSrc, PlainSrc(productId), TokSrc(productId, <<"2">>) >> }

CheckingEvent(current, total, progress, message) ==
    [progress |-> progress, current |-> current, total |-> total,
     stage |-> "checking", message |-> message]

\* the index in `products` of the item context k is in
ItemOf(k) == batches[k].start + ctx[k].idx + 1

NextItemSkips(c, sliceLen) ==
    IF c.idx + 2 < sliceLen THEN [c EXCEPT !.idx = @ + 2, !.page = "opening"]
    ELSE [c EXCEPT !.page = "done"]

\* the context moves to the next item of its slice, or is done
NextItem(c, sliceLen) ==
    IF c.idx + 1 < sliceLen THEN [c EXCEPT !.idx = @ + 1, !.page = "opening"]
    ELSE [c EXCEPT !.page = "done"]

AfterCatchBreak(c, sliceLen) == [c EXCEPT !.page = "done"]

PageLeftOpen(c) == c

\* lines 95-97: finally { await page.close() }
ClosePage(c) == [c EXCEPT !.pages = @ - 1]

\* lines 382-386: the catch block ends the iteration, the loop goes on
AfterCatch(c, sliceLen) == NextItem(c, sliceLen)

CountThrownTwice(n) == n + 2

\* line 384: processedProducts++ in the catch block
CountThrown(n) == n + 1

\* the call of checkProductImages for the next item, if there is one
Attempted(k, c) ==
    IF c.page = "opening"
    THEN [attempts EXCEPT ![batches[k].start + c.idx + 1] = @ + 1]
    ELSE attempts

FlagLeftSet == TRUE

\* line 298: isDownloadCancelled = false, the first statement of check-images
ResetFlag == FALSE

\* lines 296-340: reset the flag, check the field, build the work list, send
\* the initial progress event, call the first puppeteer.launch
CheckImages ==
    /\ chkPc = "idle"
    /\ \E rows \in CheckInputs : \E url \in SampleUrls :
          /\ csvData' = rows
          /\ sampleUrl' = url
          /\ isDownloadCancelled' = ResetFlag
          /\ cancelSnap' = <<>>
          /\ IF ~FieldFound(rows)
             THEN /\ chkPc' = "rejected"
                  /\ UNCHANGED <<products, progressEvents, outcome, attempts>>
             ELSE LET ps == ProductsOf(rows, url)
                  IN  /\ products' = ps
                      /\ progressEvents' = Append(progressEvents,
                            CheckingEvent(0, Len(ps), 0, "Checking images for"))
                      /\ outcome' = [i \in 1..Len(ps) |->
                                        [st |-> "pending", urls |-> <<>>, elements |-> 0]]
                      /\ attempts' = [i \in 1..Len(ps) |-> 0]
                      /\ chkPc' = "launching"
    /\ UNCHANGED <<browsers, batches, ctx, allImageUrls, processedProducts,
                   chkResult, launchFailedAt, completeEvents, splitVars, resVars,
                   runPc, imageUrls, checkRejected, groupStart, workers, files,
                   domainFolder, successCount, failureCount, processedCount,
                   progressText, status>>

\* lines 344-361: one puppeteer.launch resolves or rejects; after the last one
\* the batches are built and every context calls checkProductImages for the
\* first item of its slice
LaunchBrowser ==
    /\ chkPc = "launching"
    /\ \E ok \in BOOLEAN :
          IF ok
          THEN LET bs == Append(browsers, "open")
                   b  == Batches(products, Len(bs))
                   cs == [k \in 1..Len(b) |->
                             [idx |-> 0, pages |-> 0,
                              page |-> IF b[k].products = <<>> THEN "done" ELSE "opening"]]
               IN  /\ browsers' = bs
                   /\ IF Len(bs) = CONCURRENT_BROWSERS
                      THEN /\ batches' = b
                           /\ ctx' = cs
                           /\ attempts' = [i \in DOMAIN attempts |->
                                 attempts[i] +
                                    Cardinality({k \in 1..Len(b) :
                                        cs[k].page = "opening" /\ b[k].start + 1 = i})]
                           /\ chkPc' = "processing"
                      ELSE UNCHANGED <<batches, ctx, attempts, chkPc>>
                   /\ UNCHANGED launchFailedAt
          ELSE /\ launchFailedAt' = Len(browsers) + 1
               /\ chkPc' = "closingThrow"
               /\ UNCHANGED <<browsers, batches, ctx, attempts>>
    /\ UNCHANGED <<csvData, sampleUrl, products, allImageUrls, processedProducts,
                   chkResult, outcome, busVars, splitVars, resVars, dlVars>>

\* line 40: browser.newPage() resolves for the item context k is in
PageOpened(k) ==
    /\ chkPc = "processing"
    /\ ctx[k].page = "opening"
    /\ ctx' = [ctx EXCEPT ![k].page = "open", ![k].pages = @ + 1]
    /\ UNCHANGED <<csvData, sampleUrl, chkPc, products, browsers, batches,
                   allImageUrls, processedProducts, chkResult, outcome, attempts,
                   launchFailedAt, busVars, splitVars, resVars, dlVars>>

PushReplaces(all, found) == found

\* line 369: allImageUrls.push(...imageUrls)
PushAll(all, found) == all \o found

\* lines 43-97 and 368-381: the page loads, checkProductImages returns its
\* descriptors and closes the page; the handler pushes them, counts the item,
\* sends a progress event and goes on with the next item
ItemResolved(k) ==
    /\ chkPc = "processing"
    /\ ctx[k].page = "open"
    /\ \E urls \in PagesFor(products[ItemOf(k)].productId) :
          LET found     == ImageUrlsOf(urls, products[ItemOf(k)].productId)
              c         == NextItem(ClosePage(ctx[k]), Len(batches[k].products))
          IN  /\ allImageUrls' = PushAll(allImageUrls, found)
              /\ processedProducts' = processedProducts + 1
              /\ progressEvents' = Append(progressEvents,
                    CheckingEvent(processedProducts + 1, Len(products),
                                  Percent(processedProducts + 1, Len(products)),
                                  "Checking images"))
              /\ outcome' = [outcome EXCEPT ![ItemOf(k)] =
                                [st |-> "returned", urls |-> found, elements |-> Len(urls)]]
              /\ ctx' = [ctx EXCEPT ![k] = c]
              /\ attempts' = Attempted(k, c)
    /\ UNCHANGED <<csvData, sampleUrl, chkPc, products, browsers, batches, chkResult,
                   launchFailedAt, isDownloadCancelled, completeEvents, splitVars, resVars, dlVars>>

\* lines 382-385: checkProductImages rejects: newPage threw and there is no
\* page, or the navigation or the query threw and the finally block has
\* closed the page; the catch block counts the item, sends nothing
ItemThrew(k) ==
    /\ chkPc = "processing"
    /\ ctx[k].page \in {"opening", "open"}
    /\ LET left == IF ctx[k].page = "open" THEN ClosePage(ctx[k]) ELSE ctx[k]
           c    == AfterCatch(left, Len(batches[k].products))
       IN  /\ processedProducts' = CountThrown(processedProducts)
           /\ outcome' = [outcome EXCEPT ![ItemOf(k)] =
                             [st |-> "threw", urls |-> <<>>, elements |-> 0]]
           /\ ctx' = [ctx EXCEPT ![k] = c]
           /\ attempts' = Attempted(k, c)
    /\ UNCHANGED <<csvData, sampleUrl, chkPc, products, browsers, batches, allImageUrls,
                   chkResult, launchFailedAt, busVars, splitVars, resVars, dlVars>>

\* lines 390-403: Promise.all has resolved; the final progress event is sent
\* and the result is built, then the finally block starts closing the browsers
AllBatchesDone ==
    /\ chkPc = "processing"
    /\ \A k \in 1..Len(ctx) : ctx[k].page = "done"
    /\ progressEvents' = Append(progressEvents,
          CheckingEvent(Len(products), Len(products), 100, "Found"))
    /\ chkResult' = <<[success |-> TRUE, message |-> "Found", imageUrls |-> allImageUrls]>>
    /\ chkPc' = "closingReturn"
    /\ UNCHANGED <<csvData, sampleUrl, products, browsers, batches, ctx, allImageUrls,
                   processedProducts, outcome, attempts, launchFailedAt,
                   isDownloadCancelled, completeEvents, splitVars, resVars, dlVars>>

CloseAllButLast(bs) == [i \in 1..Len(bs) |-> IF i < Len(bs) THEN "closed" ELSE bs[i]]

\* line 407: browsers.map(browser => browser.close().catch(console.error)):
\* close() is called on every session pushed to `browsers`, and a close that
\* rejects is logged and does not stop the others
CloseAll(bs) == [i \in 1..Len(bs) |-> "closed"]

\* lines 405-408: every launched browser is closed, then the handler resolves
\* with the result or rejects with the error that reached the finally block
CloseBrowsers ==
    /\ chkPc \in {"closingReturn", "closingThrow"}
    /\ browsers' = CloseAll(browsers)
    /\ chkPc' = IF chkPc = "closingReturn" THEN "returned" ELSE "rejected"
    /\ UNCHANGED <<csvData, sampleUrl, products, batches, ctx, allImageUrls,
                   processedProducts, chkResult, outcome, attempts, launchFailedAt,
                   busVars, splitVars, resVars, dlVars>>

CancelIgnored ==
    /\ UNCHANGED isDownloadCancelled
    /\ UNCHANGED <<progressEvents, completeEvents>>

\* lines 411-415: the cancel-download handler
CancelDownload ==
    /\ isDownloadCancelled' = TRUE
    /\ UNCHANGED <<progressEvents, completeEvents>>

\* lines 411-415 after check-images was invoked; the request also records
\* whether it arrived before the first item was started
CancelDuringCheck ==
    /\ chkPc \notin {"idle"}
    /\ ~isDownloadCancelled
    /\ CancelDownload
    /\ cancelSnap' = <<[beforeItems |-> chkPc = "launching"]>>
    /\ UNCHANGED <<runPc, imageUrls, checkRejected, groupStart, workers, files,
                   domainFolder, successCount, failureCount, processedCount,
                   progressText, status, checkVars, splitVars, resVars>>

CheckInit ==
    /\ CheckIdle
    /\ BusIdle
    /\ DownloadIdle
    /\ workList = <<>>
    /\ slices = <<>>
    /\ splitDone = FALSE
    /\ ResolveIdle

CheckNext ==
    \/ CheckImages
    \/ LaunchBrowser
    \/ \E k \in 1..CONCURRENT_BROWSERS : PageOpened(k)
    \/ \E k \in 1..CONCURRENT_BROWSERS : ItemResolved(k)
    \/ \E k \in 1..CONCURRENT_BROWSERS : ItemThrew(k)
    \/ AllBatchesDone
    \/ CloseBrowsers
    \/ CancelDuringCheck

SpecCheck == CheckInit /\ [][CheckNext]_vars

\* ------------------------------------------------------------ download stage
\* downloadImagesInBatches(..., 4): images downloaded concurrently
batchSize == 4

\* the product every modelled descriptor belongs to
DlProductId == NormalizeId(<<"7">>)

\* descriptor i of the list check-images returned: the i-th image of the
\* product, each under its own URL, all with the captured suffix 0
DescriptorAt(i) ==
    [url |-> CDN \o IdxToString(i) \o <<"/">> \o DlProductId \o <<"_", "0">> \o JPG,
     productId |-> DlProductId,
     suffix |-> <<"0">>]

ImageLists == {[i \in 1..n |-> DescriptorAt(i)] : n \in 0..MaxImages}

\* path.join(productFolderPath, `${productId}_${uniqueSuffix}.jpg`), relative
\* to the domain folder
FilePath(productId, uniqueSuffix) ==
    productId \o <<"/">> \o productId \o <<"_">> \o uniqueSuffix \o JPG

\* lines 121-129: the suffix after n candidates were found to exist
UniqueSuffix(suffix, n) ==
    IF n = 0 THEN suffix ELSE suffix \o <<"_">> \o IdxToString(n)

\* the path worker i is looking at, or has settled on
PathOf(i) ==
    FilePath(imageUrls[i].productId, UniqueSuffix(imageUrls[i].suffix, workers[i].n))

FileExistsNever(path) == FALSE

\* fs.access(filePath) resolves
FileExists(path) == path \in DOMAIN files

\* the disk after fs.writeFile(filePath, buffer); the bytes are those served
\* under the URL
WriteFile(fs, path, url) ==
    [p \in (DOMAIN fs) \cup {path} |-> IF p = path THEN url ELSE fs[p]]

\* what the product folder can hold when a run starts: nothing, or files an
\* earlier run saved under the first names of the sequence
OldBytes == <<"o", "l", "d">>

FolderStates ==
    {<<>>,
     WriteFile(<<>>, FilePath(DlProductId, <<"0">>), OldBytes),
     WriteFile(WriteFile(<<>>, FilePath(DlProductId, <<"0">>), OldBytes),
               FilePath(DlProductId, <<"0", "_", "1">>), OldBytes)}

\* main.ts 328-397: the progress events of a check-images call that resolved
\* after checking the one product the descriptors belong to
CheckedStream ==
    <<CheckingEvent(0, 1, 0, "Checking images for"),
      CheckingEvent(1, 1, Percent(1, 1), "Checking images"),
      CheckingEvent(1, 1, 100, "Found")>>

IdleWorker ==
    [pc |-> "idle", calls |-> 0, n |-> 0, ret |-> "none", reply |-> "none",
     page |-> "none", browser |-> "none", wrote |-> FALSE]

\* setupScreen.ts 315-318: the catch block of the start handler
ErrorStatus == [type |-> "error", text |-> "Error during download process"]

\* setupScreen.ts 302-313: the final status after the downloads
FinalStatus(ok, failed, total) ==
    IF ok = total
    THEN [type |-> "success", text |-> "All images downloaded successfully",
          total |-> total]
    ELSE [type |-> "success", text |-> "Downloaded of images, failed",
          successCount |-> ok, total |-> total, failureCount |-> failed]

GroupFromPrevious(i) == {j \in 1..Len(imageUrls) : i - 1 < j /\ j <= i + batchSize}

\* the indices of the group that starts at offset i
Group(i) == {j \in 1..Len(imageUrls) : i < j /\ j <= i + batchSize}

LeaveAtOnce(w, ret) == [w EXCEPT !.pc = "closeBrowser", !.ret = ret]

\* downloadImage returns `ret` from inside its try block: the finally block
\* closes the page first
Leave(w, ret) == [w EXCEPT !.pc = "closePage", !.ret = ret]

CheckpointSkipped == FALSE

\* line 107: if (isDownloadCancelled), on entry to downloadImage
CancelledAtEntry == isDownloadCancelled

\* line 133: if (isDownloadCancelled), after the collision loop
CancelledBeforeFetch == isDownloadCancelled

\* line 152: if (isDownloadCancelled), before fs.writeFile
CancelledBeforeWrite == isDownloadCancelled

\* the places of downloadImage that come before its third checkpoint
BeforeThirdCheckpoint == {"newPage", "mkdir", "exists", "goto", "buffer"}

\* the renderer right after `await window.electronAPI.checkImages(...)`:
\* check-images has resolved with a descriptor list or has rejected; a cancel
\* request may have arrived during the checking stage; the folder may hold a
\* file of an earlier run
DownloadInit ==
    /\ runPc = "checked"
    /\ \/ checkRejected = FALSE /\ imageUrls \in ImageLists /\ progressEvents = CheckedStream
       \/ checkRejected = TRUE /\ imageUrls = <<>> /\ progressEvents = <<>>
    /\ isDownloadCancelled \in BOOLEAN
    /\ files \in FolderStates
    /\ groupStart = 0
    /\ workers = <<>>
    /\ domainFolder = FALSE
    /\ successCount = 0
    /\ failureCount = 0
    /\ processedCount = 0
    /\ progressText = <<>>
    /\ status = <<>>
    /\ cancelSnap = <<>>
    /\ completeEvents = <<>>
    /\ CheckIdle
    /\ workList = <<>>
    /\ slices = <<>>
    /\ splitDone = FALSE
    /\ ResolveIdle

OnlyRejectionThrows == checkRejected

\* setupScreen.ts 273-286: the awaited checkImages rejected, or resolved with
\* an empty list and the handler throws 'No images found to download'
CheckThrows == checkRejected \/ Len(imageUrls) = 0

\* setupScreen.ts 273-293: a rejected check-images or an empty list throws
\* into the catch block; otherwise create-domain-folder is invoked
AfterCheck ==
    /\ runPc = "checked"
    /\ runPc' = IF CheckThrows THEN "error" ELSE "folder"
    /\ status' = IF CheckThrows THEN <<ErrorStatus>> ELSE status
    /\ UNCHANGED <<imageUrls, checkRejected, groupStart, workers, files, domainFolder,
                   successCount, failureCount, processedCount, progressText,
                   cancelSnap, busVars, checkVars, splitVars, resVars>>

StartAllAtOnce(ws, i) ==
    [j \in 1..Len(ws) |->
        IF ws[j].pc = "idle" THEN [ws[j] EXCEPT !.pc = "launch", !.calls = @ + 1] ELSE ws[j]]

\* the workers of the group at offset i, each with its download-single-image
\* call made and puppeteer.launch pending
StartGroup(ws, i) ==
    [j \in 1..Len(ws) |->
        IF j \in Group(i) THEN [ws[j] EXCEPT !.pc = "launch", !.calls = @ + 1] ELSE ws[j]]

DownloadRegardless(ok) == "downloading"

\* setupScreen.ts 290-300 and 315: the awaited createDomainFolder resolves and
\* downloadImagesInBatches is called, or it rejects into the catch block
AfterFolder(ok) == IF ok THEN "downloading" ELSE "error"

\* main.ts 261-268 and setupScreen.ts 290-300: createDomainFolder resolves and
\* the first group of downloads starts, or it rejects into the catch block
DomainFolderCreated ==
    /\ runPc = "folder"
    /\ \E ok \in BOOLEAN :
          /\ domainFolder' = ok
          /\ runPc' = AfterFolder(ok)
          /\ IF AfterFolder(ok) = "downloading"
             THEN /\ workers' = StartGroup([j \in 1..Len(imageUrls) |-> IdleWorker], 0)
                  /\ UNCHANGED status
             ELSE /\ status' = <<ErrorStatus>>
                  /\ UNCHANGED workers
    /\ UNCHANGED <<imageUrls, checkRejected, groupStart, files, successCount,
                   failureCount, processedCount, progressText, cancelSnap,
                   busVars, checkVars, splitVars, resVars>>

dlUnchanged ==
    UNCHANGED <<runPc, imageUrls, checkRejected, groupStart, domainFolder,
                successCount, failureCount, status, cancelSnap, busVars, checkVars,
                splitVars, resVars>>

\* main.ts 276-281 and 106-113: puppeteer.launch resolves and downloadImage is
\* entered (first checkpoint, then browser.newPage()), or launch rejects and
\* the handler rejects with no browser to close
Launched(i) ==
    /\ runPc = "downloading"
    /\ i \in DOMAIN workers
    /\ workers[i].pc = "launch"
    /\ \E ok \in BOOLEAN :
          workers' = [workers EXCEPT ![i] =
              IF ~ok THEN [@ EXCEPT !.pc = "reply", !.reply = "rejected"]
              ELSE IF CancelledAtEntry
                   THEN [@ EXCEPT !.browser = "open", !.pc = "closeBrowser", !.ret = "false"]
                   ELSE [@ EXCEPT !.browser = "open", !.pc = "newPage"]]
    /\ UNCHANGED <<files, processedCount, progressText>>
    /\ dlUnchanged

\* main.ts 113-118: browser.newPage() resolves and fs.mkdir is called, or it
\* rejects: the call is outside the try block, so downloadImage rejects
PageCreated(i) ==
    /\ runPc = "downloading"
    /\ i \in DOMAIN workers
    /\ workers[i].pc = "newPage"
    /\ \E ok \in BOOLEAN :
          workers' = [workers EXCEPT ![i] =
              IF ok THEN [@ EXCEPT !.page = "open", !.pc = "mkdir"]
              ELSE [@ EXCEPT !.pc = "closeBrowser", !.ret = "threw"]]
    /\ UNCHANGED <<files, processedCount, progressText>>
    /\ dlUnchanged

\* main.ts 118-126: fs.mkdir resolves and the first fileExists is called, or
\* it rejects into the catch block
FolderMade(i) ==
    /\ runPc = "downloading"
    /\ i \in DOMAIN workers
    /\ workers[i].pc = "mkdir"
    /\ \E ok \in BOOLEAN :
          workers' = [workers EXCEPT ![i] =
              IF ok THEN [@ EXCEPT !.pc = "exists"] ELSE Leave(@, "false")]
    /\ UNCHANGED <<files, processedCount, progressText>>
    /\ dlUnchanged

\* main.ts 126-139: fileExists resolves; on true the next candidate is tried,
\* on false the second checkpoint is read and page.goto is called
ExistsChecked(i) ==
    /\ runPc = "downloading"
    /\ i \in DOMAIN workers
    /\ workers[i].pc = "exists"
    /\ workers' = [workers EXCEPT ![i] =
          IF FileExists(PathOf(i)) THEN [@ EXCEPT !.n = @ + 1]
          ELSE IF CancelledBeforeFetch THEN Leave(@, "false")
          ELSE [@ EXCEPT !.pc = "goto"]]
    /\ UNCHANGED <<files, processedCount, progressText>>
    /\ dlUnchanged

\* main.ts 139-145: page.goto resolves with a response (response.buffer() is
\* called) or with null, or rejects
Fetched(i) ==
    /\ runPc = "downloading"
    /\ i \in DOMAIN workers
    /\ workers[i].pc = "goto"
    /\ \E r \in {"response", "null", "throw"} :
          workers' = [workers EXCEPT ![i] =
              IF r = "response" THEN [@ EXCEPT !.pc = "buffer"] ELSE Leave(@, "false")]
    /\ UNCHANGED <<files, processedCount, progressText>>
    /\ dlUnchanged

\* main.ts 145-158: response.buffer() resolves with the bytes (the third
\* checkpoint is read and fs.writeFile is called) or with nothing, or rejects
Buffered(i) ==
    /\ runPc = "downloading"
    /\ i \in DOMAIN workers
    /\ workers[i].pc = "buffer"
    /\ \E r \in {"bytes", "null", "throw"} :
          workers' = [workers EXCEPT ![i] =
              IF r = "bytes" /\ ~CancelledBeforeWrite THEN [@ EXCEPT !.pc = "write"]
              ELSE Leave(@, "false")]
    /\ UNCHANGED <<files, processedCount, progressText>>
    /\ dlUnchanged

\* main.ts 158-163: fs.writeFile resolves, the file now holding the bytes, or
\* rejects into the catch block
Written(i) ==
    /\ runPc = "downloading"
    /\ i \in DOMAIN workers
    /\ workers[i].pc = "write"
    /\ \E ok \in BOOLEAN :
          IF ok
          THEN /\ files' = WriteFile(files, PathOf(i), imageUrls[i].url)
               /\ workers' = [workers EXCEPT ![i] = [Leave(@, "true") EXCEPT !.wrote = TRUE]]
          ELSE /\ workers' = [workers EXCEPT ![i] = Leave(@, "false")]
               /\ UNCHANGED files
    /\ UNCHANGED <<processedCount, progressText>>
    /\ dlUnchanged

\* main.ts 164-166 and 288-292: page.close() in the finally block resolves, or
\* rejects and downloadImage rejects with that error; browser.close() is next
PageClosed(i) ==
    /\ runPc = "downloading"
    /\ i \in DOMAIN workers
    /\ workers[i].pc = "closePage"
    /\ \E ok \in BOOLEAN :
          workers' = [workers EXCEPT ![i] =
              IF ok THEN [@ EXCEPT !.page = "closed", !.pc = "closeBrowser"]
              ELSE [@ EXCEPT !.pc = "closeBrowser", !.ret = "threw"]]
    /\ UNCHANGED <<files, processedCount, progressText>>
    /\ dlUnchanged

\* what the handler answers once its finally block is through
ReplyOf(ret, closed) ==
    IF ~closed \/ ret = "threw" THEN "rejected"
    ELSE IF ret = "true" THEN "success" ELSE "failure"

\* main.ts 282-292 and setupScreen.ts 180-198: browser.close() resolves or
\* rejects, the handler answers, and the renderer's callback counts the image
\* and updates the progress text when the call resolved
BrowserClosed(i) ==
    /\ runPc = "downloading"
    /\ i \in DOMAIN workers
    /\ workers[i].pc = "closeBrowser"
    /\ \E ok \in BOOLEAN :
          LET reply == ReplyOf(workers[i].ret, ok)
          IN  /\ workers' = [workers EXCEPT ![i] =
                    [@ EXCEPT !.pc = "done", !.reply = reply,
                              !.browser = IF ok THEN "closed" ELSE @]]
              /\ IF reply = "rejected"
                 THEN UNCHANGED <<processedCount, progressText>>
                 ELSE /\ processedCount' = processedCount + 1
                      /\ progressText' = Append(progressText,
                            [current |-> processedCount + 1, total |-> Len(imageUrls)])
    /\ UNCHANGED files
    /\ dlUnchanged

\* main.ts 276 and setupScreen.ts 195-198: the handler rejected before it had
\* a browser; the renderer's catch block turns that into false
LaunchRejected(i) ==
    /\ runPc = "downloading"
    /\ i \in DOMAIN workers
    /\ workers[i].pc = "reply"
    /\ workers' = [workers EXCEPT ![i].pc = "done"]
    /\ UNCHANGED <<files, processedCount, progressText>>
    /\ dlUnchanged

\* setupScreen.ts 202-214 and 302-313: Promise.all of the group resolves, the
\* results are counted, and the next group starts or the final status is shown
GroupDone ==
    /\ runPc = "downloading"
    /\ \A j \in Group(groupStart) : workers[j].pc = "done"
    /\ successCount' = successCount
          + Cardinality({j \in Group(groupStart) : workers[j].reply = "success"})
    /\ failureCount' = failureCount
          + Cardinality({j \in Group(groupStart) : workers[j].reply # "success"})
    /\ groupStart' = groupStart + batchSize
    /\ IF groupStart + batchSize < Len(imageUrls)
       THEN /\ workers' = StartGroup(workers, groupStart + batchSize)
            /\ UNCHANGED <<runPc, status>>
       ELSE /\ runPc' = "success"
            /\ status' = <<FinalStatus(successCount', failureCount', Len(imageUrls))>>
            /\ UNCHANGED workers
    /\ UNCHANGED <<imageUrls, checkRejected, files, domainFolder, processedCount,
                   progressText, cancelSnap, busVars, checkVars, splitVars, resVars>>

\* main.ts 411-415 during the download stage; the first request of the run
\* also records what the disk held, which downloads had not entered
\* downloadImage yet and which were inside it, before its third checkpoint
CancelDuringDownload ==
    /\ runPc \in {"checking", "folder", "downloading"}
    /\ ~isDownloadCancelled
    /\ CancelDownload
    /\ LET completed == {j \in 1..Len(workers) :
                             workers[j].pc = "done" /\ workers[j].wrote}
       IN  cancelSnap' =
              <<[notStarted |-> {j \in 1..Len(imageUrls) :
                                    workers = <<>> \/ workers[j].pc \in {"idle", "launch"}},
                 inFlight |-> {j \in 1..Len(workers) :
                                  workers[j].pc \in BeforeThirdCheckpoint},
                 completed |-> completed,
                 saved |-> [j \in completed |-> files[PathOf(j)]]]>>
    /\ UNCHANGED <<runPc, imageUrls, checkRejected, groupStart, workers, files,
                   domainFolder, successCount, failureCount, processedCount,
                   progressText, status, checkVars, splitVars, resVars>>

\* main.ts 411-415 once the run has ended: the flag stays set until the next
\* check-images call; the request records that no download was pending
CancelAfterRun ==
    /\ runPc \in {"success", "error"}
    /\ ~isDownloadCancelled
    /\ CancelDownload
    /\ cancelSnap' = <<[notStarted |-> {}, inFlight |-> {}, completed |-> {},
                        saved |-> <<>>]>>
    /\ UNCHANGED <<runPc, imageUrls, checkRejected, groupStart, workers, files,
                   domainFolder, successCount, failureCount, processedCount,
                   progressText, status, checkVars, splitVars, resVars>>

\* setupScreen.ts 218-278 and main.ts 296-298: the run has ended and the start
\* button is clicked again; the handler's locals are fresh, check-images is
\* invoked and resets the flag; the storage path now names a folder that is
\* empty or holds files of an earlier run
StartClicked ==
    /\ runPc \in {"success", "error"}
    /\ runPc' = "checking"
    /\ isDownloadCancelled' = ResetFlag
    /\ imageUrls' = <<>>
    /\ checkRejected' = FALSE
    /\ groupStart' = 0
    /\ workers' = <<>>
    /\ files' \in FolderStates
    /\ domainFolder' = FALSE
    /\ successCount' = 0
    /\ failureCount' = 0
    /\ processedCount' = 0
    /\ progressText' = <<>>
    /\ status' = <<>>
    /\ progressEvents' = <<>>
    /\ UNCHANGED <<cancelSnap, completeEvents, checkVars, splitVars, resVars>>

\* setupScreen.ts 273-278: the awaited check-images call resolves with its
\* descriptors, its progress events delivered before the reply, or rejects
CheckSettled ==
    /\ runPc = "checking"
    /\ runPc' = "checked"
    /\ \/ /\ checkRejected' = FALSE
          /\ imageUrls' \in ImageLists
          /\ progressEvents' = CheckedStream
       \/ /\ checkRejected' = TRUE
          /\ imageUrls' = <<>>
          /\ progressEvents' = <<>>
    /\ cancelSnap' = <<>>
    /\ UNCHANGED <<groupStart, workers, files, domainFolder, successCount, failureCount,
                   processedCount, progressText, status, isDownloadCancelled,
                   completeEvents, checkVars, splitVars, resVars>>

DownloadNext ==
    \/ StartClicked
    \/ CheckSettled
    \/ AfterCheck
    \/ DomainFolderCreated
    \/ \E i \in 1..MaxImages : Launched(i)
    \/ \E i \in 1..MaxImages : PageCreated(i)
    \/ \E i \in 1..MaxImages : FolderMade(i)
    \/ \E i \in 1..MaxImages : ExistsChecked(i)
    \/ \E i \in 1..MaxImages : Fetched(i)
    \/ \E i \in 1..MaxImages : Buffered(i)
    \/ \E i \in 1..MaxImages : Written(i)
    \/ \E i \in 1..MaxImages : PageClosed(i)
    \/ \E i \in 1..MaxImages : BrowserClosed(i)
    \/ \E i \in 1..MaxImages : LaunchRejected(i)
    \/ GroupDone
    \/ CancelDuringDownload
    \/ CancelAfterRun

SpecDownload == DownloadInit /\ [][DownloadNext]_vars

\* ------------------------------------------- the download stage, call by call
\* descriptor i of a list whose suffixes are the positional indices
IndexedDescriptorAt(i) ==
    [url |-> CDN \o IdxToString(i) \o <<"/">> \o DlProductId \o JPG,
     productId |-> DlProductId,
     suffix |-> IdxToString(i - 1)]

BatchLists == {[i \in 1..n |-> IndexedDescriptorAt(i)] : n \in 0..MaxBatchImages}

\* the renderer right after check-images resolved, the folder empty and no
\* cancel request made
BatchesInit ==
    /\ runPc = "checked"
    /\ checkRejected = FALSE
    /\ imageUrls \in BatchLists
    /\ progressEvents = CheckedStream
    /\ isDownloadCancelled = FALSE
    /\ files = <<>>
    /\ groupStart = 0
    /\ workers = <<>>
    /\ domainFolder = FALSE
    /\ successCount = 0
    /\ failureCount = 0
    /\ processedCount = 0
    /\ progressText = <<>>
    /\ status = <<>>
    /\ cancelSnap = <<>>
    /\ completeEvents = <<>>
    /\ CheckIdle
    /\ workList = <<>>
    /\ slices = <<>>
    /\ splitDone = FALSE
    /\ ResolveIdle

\* main.ts 121-130 run without interruption: the number of candidates that
\* exist before the first free one
FirstFree(fs, productId, suffix) ==
    CHOOSE n \in 0..Cardinality(DOMAIN fs) :
        /\ FilePath(productId, UniqueSuffix(suffix, n)) \notin DOMAIN fs
        /\ \A m \in 0..(n - 1) : FilePath(productId, UniqueSuffix(suffix, m)) \in DOMAIN fs

\* main.ts 271-293 with 101-167 and setupScreen.ts 180-198: one whole
\* download-single-image call: it saves the image and answers success, or
\* answers failure, or rejects; the renderer counts it unless it rejected
CallSettled(i) ==
    /\ runPc = "downloading"
    /\ i \in DOMAIN workers
    /\ workers[i].pc = "launch"
    /\ \E reply \in {"success", "failure", "rejected"} :
          /\ reply = "success" => ~isDownloadCancelled
          /\ IF reply = "success"
             THEN LET n == FirstFree(files, imageUrls[i].productId, imageUrls[i].suffix)
                  IN  /\ files' = WriteFile(files,
                                      FilePath(imageUrls[i].productId,
                                               UniqueSuffix(imageUrls[i].suffix, n)),
                                      imageUrls[i].url)
                      /\ workers' = [workers EXCEPT ![i] =
                            [@ EXCEPT !.pc = "done", !.reply = reply, !.ret = "true",
                                      !.n = n, !.wrote = TRUE, !.page = "closed",
                                      !.browser = "closed"]]
             ELSE /\ workers' = [workers EXCEPT ![i] =
                            [@ EXCEPT !.pc = "done", !.reply = reply,
                                      !.ret = IF reply = "failure" THEN "false" ELSE "threw"]]
                  /\ UNCHANGED files
          /\ IF reply = "rejected"
             THEN UNCHANGED <<processedCount, progressText>>
             ELSE /\ processedCount' = processedCount + 1
                  /\ progressText' = Append(progressText,
                        [current |-> processedCount + 1, total |-> Len(imageUrls)])
    /\ dlUnchanged

BatchesNext ==
    \/ AfterCheck
    \/ DomainFolderCreated
    \/ \E i \in 1..MaxBatchImages : CallSettled(i)
    \/ GroupDone

SpecBatches == BatchesInit /\ [][BatchesNext]_vars

\* ------------------------------------------- checkProductImages on one page
\* the longest list of matched elements a product page holds
MaxSrcs == 3

ResolveIds == {<<"1", "2">>, DlProductId}

\* an image kept in a folder named after the product: the src contains the
\* productId, the file name does not
DirSrc(productId) == CDN \o productId \o <<"/", "x">> \o JPG

\* what page.$$eval can return for one matched element: null, an image of
\* another product, and images of the product named with and without a token
SrcsFor(productId) ==
    { <<>>, OtherSrc, PlainSrc(productId), DirSrc(productId),
      TokSrc(productId, <<"1">>), TokSrc(productId, <<"2">>) }

ResolveInit ==
    /\ resolveId \in ResolveIds
    /\ pageSrcs \in UNION {[1..n -> SrcsFor(resolveId)] : n \in 0..MaxSrcs}
    /\ resolved = <<>>
    /\ CheckIdle
    /\ BusIdle
    /\ DownloadIdle
    /\ workList = <<>>
    /\ slices = <<>>
    /\ splitDone = FALSE

\* lines 58-94: from the srcs of the matched elements to the returned list
ResolvePage ==
    /\ resolved = <<>>
    /\ resolved' = <<ImageUrlsOf(pageSrcs, resolveId)>>
    /\ UNCHANGED <<pageSrcs, resolveId, splitVars, checkVars, busVars, dlVars>>

ResolveNext == ResolvePage

SpecResolve == ResolveInit /\ [][ResolveNext]_vars

\* ------------------------------- both stages, every pending operation settling
\* the longest work list and the longest descriptor list of these runs
MaxLiveRows == 4

MaxLiveImages == 1

\* main.ts 296-340: check-images has reset the flag, built the work list of
\* n rows that all hold an identifier, sent the initial progress event and
\* called the first puppeteer.launch
LiveCheckInit ==
    /\ \E n \in 0..MaxLiveRows : csvData = [i \in 1..n |-> [id |-> IdCell(i)]]
    /\ FieldFound(csvData)
    /\ sampleUrl \in SampleUrls
    /\ products = ProductsOf(csvData, sampleUrl)
    /\ chkPc = "launching"
    /\ browsers = <<>>
    /\ batches = <<>>
    /\ ctx = <<>>
    /\ allImageUrls = <<>>
    /\ processedProducts = 0
    /\ chkResult = <<>>
    /\ outcome = [i \in 1..Len(products) |->
                     [st |-> "pending", urls |-> <<>>, elements |-> 0]]
    /\ attempts = [i \in 1..Len(products) |-> 0]
    /\ launchFailedAt = 0
    /\ isDownloadCancelled = ResetFlag
    /\ progressEvents = <<CheckingEvent(0, Len(products), 0, "Checking images for")>>
    /\ completeEvents = <<>>
    /\ DownloadIdle
    /\ workList = <<>>
    /\ slices = <<>>
    /\ splitDone = FALSE
    /\ ResolveIdle

\* the states of DownloadInit whose list holds at most MaxLiveImages descriptors
LiveDownloadInit ==
    /\ DownloadInit
    /\ Len(imageUrls) <= MaxLiveImages

LiveInit == LiveCheckInit \/ LiveDownloadInit

\* main.ts 342-409: a step of the check-images handler or of its contexts
CheckRunStep ==
    \/ LaunchBrowser
    \/ \E k \in 1..CONCURRENT_BROWSERS : PageOpened(k)
    \/ \E k \in 1..CONCURRENT_BROWSERS : ItemResolved(k)
    \/ \E k \in 1..CONCURRENT_BROWSERS : ItemThrew(k)
    \/ AllBatchesDone
    \/ CloseBrowsers

\* setupScreen.ts 273-313 and main.ts 261-293: a step of the start handler
\* after the check, or of one download-single-image call
DownloadRunStep ==
    \/ AfterCheck
    \/ DomainFolderCreated
    \/ \E i \in 1..MaxImages : Launched(i)
    \/ \E i \in 1..MaxImages : PageCreated(i)
    \/ \E i \in 1..MaxImages : FolderMade(i)
    \/ \E i \in 1..MaxImages : ExistsChecked(i)
    \/ \E i \in 1..MaxImages : Fetched(i)
    \/ \E i \in 1..MaxImages : Buffered(i)
    \/ \E i \in 1..MaxImages : Written(i)
    \/ \E i \in 1..MaxImages : PageClosed(i)
    \/ \E i \in 1..MaxImages : BrowserClosed(i)
    \/ \E i \in 1..MaxImages : LaunchRejected(i)
    \/ GroupDone

\* main.ts 411-415: a cancel request, which may come at any time or never
CancelRequested ==
    \/ CancelDuringCheck
    \/ CancelDuringDownload

LiveNext ==
    \/ CheckRunStep
    \/ DownloadRunStep
    \/ CancelRequested

\* every launch, navigation, page and file operation that is pending settles:
\* while a handler step is possible, one is eventually taken
SpecLive == LiveInit /\ [][LiveNext]_vars /\ WF_vars(CheckRunStep) /\ WF_vars(DownloadRunStep)

\* ------------------------------------------------------------------ claims
SliceSizes == [k \in 1..Len(slices) |-> Len(slices[k].products)]

\* the positions (0-based) of the work list that slice k covers
SliceRange(k) == {i \in 0..(Len(workList) - 1) : slices[k].start <= i /\ i < slices[k].end}

\* C1: the slices built by check-images are contiguous and disjoint, and
\* concatenating them in slice order gives back the work list, every item
\* exactly once, also for an empty list and a list shorter than 4.
C1_SlicesPartition ==
    splitDone =>
        /\ Len(slices) = CONCURRENT_BROWSERS
        /\ Concat([k \in 1..Len(slices) |-> slices[k].products]) = workList
        /\ \A k \in 1..Len(slices) :
              \* contiguous: slice k is the run of items at its positions
              /\ \A i \in SliceRange(k) : \A j \in SliceRange(k) :
                    \A m \in 0..(Len(workList) - 1) : (i <= m /\ m <= j) => m \in SliceRange(k)
              /\ Len(slices[k].products) = Cardinality(SliceRange(k))
              /\ \A i \in SliceRange(k) :
                    slices[k].products[i - slices[k].start + 1] = workList[i + 1]
        /\ \A k \in 1..Len(slices) : \A j \in 1..Len(slices) :
              k # j => SliceRange(k) \cap SliceRange(j) = {}
        /\ UNION {SliceRange(k) : k \in 1..Len(slices)} = 0..(Len(workList) - 1)

C1_Witness ==
    /\ splitDone
    /\ Len(workList) \in 1..3
    /\ slices[CONCURRENT_BROWSERS].products = <<>>

\* C2 as stated: a work list of 17 is split 5, 4, 4, 4, and the sizes of any
\* two slices differ by at most one.
C2_NearEqualSizes ==
    splitDone =>
        /\ Len(workList) = 17 => SliceSizes = <<5, 4, 4, 4>>
        /\ \A k \in 1..Len(slices) : \A j \in 1..Len(slices) :
              SliceSizes[k] - SliceSizes[j] <= 1

\* C2 amended: a work list of 17 is split 5, 5, 5, 2; no slice is longer than
\* ceil(size / 4), and every slice followed by a non-empty slice holds exactly
\* ceil(size / 4) items, so only the last non-empty slice may be shorter.
C2_CeilSizes ==
    splitDone =>
        /\ Len(workList) = 17 => SliceSizes = <<5, 5, 5, 2>>
        /\ \A k \in 1..Len(slices) :
              /\ CONCURRENT_BROWSERS * SliceSizes[k] < Len(workList) + CONCURRENT_BROWSERS
              /\ (k < Len(slices) /\ SliceSizes[k + 1] > 0) =>
                    /\ CONCURRENT_BROWSERS * SliceSizes[k] >= Len(workList)
                    /\ SliceSizes[k] >= SliceSizes[k + 1]

C2_Witness == splitDone /\ Len(workList) = 17 /\ SliceSizes[4] = 2

\* ------------------------------------------------- claims on the normalizer
Zeros(n) == [i \in 1..n |-> "0"]

\* the rows check-images keeps: those with a non-empty cell
KeptRows == {i \in 1..Len(csvData) : Len(csvData[i].id) > 0}

\* `id` is `cell` without its quote characters, left-padded with 0 to 12
IsPadded(id, cell) ==
    LET bare == SelectSeq(cell, LAMBDA c : c # "\"")
    IN  \E z \in 0..12 :
            /\ id = Zeros(z) \o bare
            /\ z > 0 => Len(id) = 12

\* `url` is `sample` with its first run of 12 digits replaced by `id`
IsFilled(url, sample, id) ==
    \E r \in 1..(Len(sample) - 11) :
        /\ \A j \in r..(r + 11) : sample[j] \in Digits
        /\ \A q \in 1..(r - 1) : \E j \in q..(q + 11) : sample[j] \notin Digits
        /\ url = SubSeq(sample, 1, r - 1) \o id \o SubSeq(sample, r + 12, Len(sample))

C16_Idempotent ==
    chkPc = "prepared" =>
        /\ \A k \in 1..Len(products) :
              NormalizeId(products[k].productId) = products[k].productId
        /\ \A i \in 1..Len(csvData) :
              (Len(csvData[i].id) = 12 /\ \A j \in 1..12 : csvData[i].id[j] \in Digits)
                  => /\ NormalizeId(csvData[i].id) = csvData[i].id
                     /\ \E k \in 1..Len(products) : products[k].productId = csvData[i].id

C16_Witness ==
    /\ chkPc = "prepared"
    /\ Len(csvData) = 2
    /\ csvData[1].id = <<"1">>
    /\ csvData[2].id = TwelveDigits
    /\ products[2].productId = TwelveDigits

\* C17 as stated: every identifier of the work list is exactly 12 characters
\* wide, whatever the cell it was made from.
C17_FixedWidth ==
    chkPc = "prepared" =>
        \A k \in 1..Len(products) : Len(products[k].productId) = 12

\* what of C17 the code does keep: no identifier is shorter than 12
C17_AtLeastTwelve ==
    chkPc = "prepared" =>
        \A k \in 1..Len(products) : Len(products[k].productId) >= 12

\* ---------------------------------------------------- claims on check-images
CountIn(seq, d) == Cardinality({j \in 1..Len(seq) : seq[j] = d})

ItemEvents == SelectSeq(progressEvents, LAMBDA e : e.message = "Checking images")

Processed == {i \in 1..Len(outcome) : outcome[i].st # "pending"}

\* C5: in the checking stage the `current` of the progress events never
\* decreases and never exceeds `total`, and once the four contexts have
\* finished the last event of the stage has current = total, whatever the
\* interleaving and whichever items threw.
C5_CheckingProgress ==
    /\ \A i \in 1..Len(progressEvents) :
          /\ progressEvents[i].stage = "checking"
          /\ progressEvents[i].current >= 0
          /\ progressEvents[i].current <= progressEvents[i].total
          /\ progressEvents[i].total = Len(products)
    /\ \A i \in 1..(Len(progressEvents) - 1) :
          progressEvents[i].current <= progressEvents[i + 1].current
    /\ chkPc \in {"closingReturn", "returned"} =>
          /\ progressEvents # <<>>
          /\ progressEvents[Len(progressEvents)].current = Len(products)
          /\ progressEvents[Len(progressEvents)].current
                = progressEvents[Len(progressEvents)].total

C5_Witness ==
    /\ chkPc = "returned"
    /\ \E i \in 1..Len(outcome) : \E j \in 1..Len(outcome) :
          /\ i < j
          /\ outcome[i].st = "threw"
          /\ outcome[j].st = "returned"
    /\ Len(ItemEvents) >= 2

\* C6 as stated: after every processed item, succeeded or failed, exactly one
\* progress event has been emitted, its `current` the number of items
\* completed so far across all contexts and its `total` the size of the work
\* list.
C6_OneEventPerItem ==
    /\ Len(ItemEvents) = Cardinality(Processed)
    /\ \A j \in 1..Len(ItemEvents) :
          /\ ItemEvents[j].current = j
          /\ ItemEvents[j].total = Len(products)

\* C8 as stated: a browser launch that fails is fatal for its own slice only:
\* the run still returns a result, and the items of the other slices are all
\* processed.
C8_LaunchFailureLocal ==
    (launchFailedAt # 0 /\ chkPc \in {"returned", "rejected"}) =>
        /\ chkPc = "returned"
        /\ chkResult # <<>>
        /\ LET b == Batches(products, CONCURRENT_BROWSERS)
           IN  \A i \in 1..Len(products) :
                  (i <= b[launchFailedAt].start \/ i > b[launchFailedAt].end)
                      => outcome[i].st # "pending"

\* C9: when the four browsers have launched, an exception raised for one item
\* is caught at the item boundary: every item of every slice gets exactly one
\* resolve call, whichever calls throw, and check-images returns success with
\* exactly the descriptors of the calls that did not throw.
C9_ItemExceptionsCaught ==
    /\ \A i \in 1..Len(attempts) : attempts[i] <= 1
    /\ chkPc = "returned" =>
          /\ \A i \in 1..Len(products) : attempts[i] = 1 /\ outcome[i].st # "pending"
          /\ chkResult # <<>>
          /\ chkResult[1].success = TRUE
          /\ LET expected == Concat([i \in 1..Len(outcome) |->
                                IF outcome[i].st = "returned" THEN outcome[i].urls ELSE <<>>])
                 got      == chkResult[1].imageUrls
             IN  /\ Len(got) = Len(expected)
                 /\ \A j \in 1..Len(got) : CountIn(got, got[j]) = CountIn(expected, got[j])

C9_Witness ==
    /\ chkPc = "returned"
    /\ \E k \in 1..Len(batches) :
          /\ Len(batches[k].products) >= 2
          /\ outcome[batches[k].start + 1].st = "threw"
          /\ outcome[batches[k].start + 2].st = "returned"
          /\ outcome[batches[k].start + 2].urls # <<>>

\* C11: every browser session check-images launched is closed when the call
\* ends, on the normal path and when a launch fails part-way through the
\* pool, and no session is closed while a context still has an item of its
\* slice to process.
C11_SessionsClosed ==
    /\ chkPc \in {"returned", "rejected"} =>
          \A i \in 1..Len(browsers) : browsers[i] = "closed"
    /\ (\E i \in 1..Len(browsers) : browsers[i] = "closed") =>
          \A k \in 1..Len(ctx) : ctx[k].page = "done"
    /\ chkPc = "processing" => \A i \in 1..Len(browsers) : browsers[i] = "open"

C11_Witness ==
    /\ chkPc = "rejected"
    /\ launchFailedAt = 3
    /\ Len(browsers) = 2
    /\ \A i \in 1..Len(browsers) : browsers[i] = "closed"

\* C14: when the configured field is not among the headers of the rows (the
\* keys of the first row; none when there is no row), check-images rejects
\* with no browser launched or being launched and no progress event sent.
C14_FieldNotFound ==
    (chkPc # "idle" /\ (csvData = <<>> \/ selectedProductIdField \notin DOMAIN csvData[1])) =>
        /\ chkPc = "rejected"
        /\ browsers = <<>>
        /\ launchFailedAt = 0
        /\ progressEvents = <<>>
        /\ products = <<>>
        /\ chkResult = <<>>

C14_Witness ==
    /\ chkPc = "rejected"
    /\ Len(csvData) >= 2
    /\ DOMAIN csvData[1] = {"sku"}
    /\ browsers = <<>>

\* the work items whose page matched no image element
EmptyPages == {i \in 1..Len(outcome) : outcome[i].st = "returned" /\ outcome[i].elements = 0}

\* C18: a resolve call on a page with zero matching image elements returns
\* the empty list; no descriptor of its product reaches the list check-images
\* returns; the item is counted in the progress counter and has its progress
\* event like every item whose call returned; and the run is on no error
\* path: it returns success.
C18_EmptyPageNoError ==
    /\ \A i \in EmptyPages :
          /\ outcome[i].urls = <<>>
          /\ \A j \in 1..Len(allImageUrls) :
                allImageUrls[j].productId # products[i].productId
          /\ chkPc \in {"processing", "closingReturn", "returned"}
          /\ chkPc = "returned" =>
                /\ chkResult[1].success = TRUE
                /\ \A j \in 1..Len(chkResult[1].imageUrls) :
                      chkResult[1].imageUrls[j].productId # products[i].productId
    /\ EmptyPages # {} =>
          /\ processedProducts = Cardinality(Processed)
          /\ Len(ItemEvents)
                = Cardinality({i \in 1..Len(outcome) : outcome[i].st = "returned"})
          /\ ItemEvents[Len(ItemEvents)].current <= processedProducts
          /\ ItemEvents[Len(ItemEvents)].current >= Cardinality(EmptyPages)

\* every page of the run matched no element, and the run returned
C18_Witness ==
    /\ chkPc = "returned"
    /\ Len(products) >= 2
    /\ EmptyPages = 1..Len(products)
    /\ chkResult[1].imageUrls = <<>>
    /\ processedProducts = Len(products)

\* a step of the check-images handler or of one of its contexts
CheckStep ==
    \/ LaunchBrowser
    \/ \E k \in 1..CONCURRENT_BROWSERS : PageOpened(k)
    \/ \E k \in 1..CONCURRENT_BROWSERS : ItemResolved(k)
    \/ \E k \in 1..CONCURRENT_BROWSERS : ItemThrew(k)
    \/ AllBatchesDone
    \/ CloseBrowsers

\* C23: a cancel request made while check-images runs does not stop it: with
\* the flag set the handler and its contexts can still take their next step,
\* and when the call returns every work item has had its resolve call and the
\* result holds exactly the descriptors of the calls that returned, as it
\* does without a cancel.
C23_CheckIgnoresCancel ==
    isDownloadCancelled =>
        /\ chkPc \in {"launching", "processing", "closingReturn", "closingThrow"}
              => ENABLED CheckStep
        /\ chkPc = "returned" =>
              /\ \A i \in 1..Len(products) : attempts[i] = 1 /\ outcome[i].st # "pending"
              /\ chkResult[1].success = TRUE
              /\ LET expected == Concat([i \in 1..Len(outcome) |->
                                    IF outcome[i].st = "returned" THEN outcome[i].urls ELSE <<>>])
                     got      == chkResult[1].imageUrls
                 IN  /\ Len(got) = Len(expected)
                     /\ \A j \in 1..Len(got) :
                           CountIn(got, got[j]) = CountIn(expected, got[j])

\* the request arrived while the browsers were being launched, before any
\* item was started; the call has returned the images of every product
C23_Witness ==
    /\ chkPc = "returned"
    /\ isDownloadCancelled
    /\ cancelSnap = <<[beforeItems |-> TRUE]>>
    /\ Len(products) >= 2
    /\ \A i \in 1..Len(products) : outcome[i].st = "returned" /\ outcome[i].urls # <<>>

\* the items of slice k, by their place in the work list
ItemsOf(k) == {a \in 1..Len(products) : batches[k].start < a /\ a <= batches[k].end}

\* the items whose resolve call has been made and has not ended
InFlight == {a \in 1..Len(products) : attempts[a] >= 1 /\ outcome[a].st = "pending"}

\* C24: within one context the items of its slice are taken one at a time in
\* input order: at most one resolve call of a slice is under way, the call of
\* an item is made only when the call of the item before it in the slice has
\* returned or thrown, and a context that is done has left no item out.
C24_SequentialInSlice ==
    batches # <<>> =>
        \A k \in 1..Len(batches) :
            /\ Cardinality(ItemsOf(k) \cap InFlight) <= 1
            /\ \A a \in ItemsOf(k) :
                  /\ attempts[a] <= 1
                  /\ (a - 1 \in ItemsOf(k) /\ attempts[a] >= 1) => outcome[a - 1].st # "pending"
                  /\ ctx[k].page = "done" => outcome[a].st # "pending"
                  /\ a \in InFlight => a = ItemOf(k)

\* the second context has finished its two items while the first context is
\* still in the call of its first item
C24_Witness ==
    /\ chkPc = "processing"
    /\ Len(products) = 5
    /\ 1 \in InFlight
    /\ attempts[2] = 0
    /\ outcome[3].st # "pending"
    /\ outcome[4].st # "pending"
    /\ 5 \in InFlight

\* C25: a context has a page open exactly while a resolve call of it is past
\* browser.newPage(): never more than one, and none between two items, when
\* the context is done, or when check-images has returned or rejected.
C25_OnePagePerItem ==
    /\ \A k \in 1..Len(ctx) :
          /\ ctx[k].pages \in {0, 1}
          /\ ctx[k].pages = 1 <=> ctx[k].page = "open"
    /\ chkPc \in {"closingReturn", "closingThrow", "returned", "rejected"} =>
          \A k \in 1..Len(ctx) : ctx[k].pages = 0

\* check-images has returned after a run in which a page held images, a page
\* held none and a call threw
C25_Witness ==
    /\ chkPc = "returned"
    /\ \E i \in 1..Len(outcome) : outcome[i].st = "returned" /\ outcome[i].urls # <<>>
    /\ \E i \in 1..Len(outcome) : outcome[i].st = "returned" /\ outcome[i].elements = 0
    /\ \E i \in 1..Len(outcome) : outcome[i].st = "threw"
    /\ \A k \in 1..Len(ctx) : ctx[k].pages = 0

\* -------------------------------------------------- claims on the downloads
\* worker i has settled on its file name and not yet left downloadImage
Naming(i) == workers[i].pc \in {"goto", "buffer", "write"}

\* C3 as stated: no two downloads that both report success wrote the same
\* path, and the name one in-flight worker has chosen is never chosen by
\* another in-flight worker.
C3_UniqueSavedPaths ==
    \A i \in DOMAIN workers : \A j \in DOMAIN workers :
        i # j =>
            /\ (workers[i].ret = "true" /\ workers[j].ret = "true") => PathOf(i) # PathOf(j)
            /\ (Naming(i) /\ Naming(j)) => PathOf(i) # PathOf(j)

\* C4 as stated: once the flag is set during the download stage, every
\* download that had not started then reports failure and writes nothing,
\* and every file written by a download completed before stays as it was.
C4_CancelMidBatch ==
    (cancelSnap # <<>> /\ workers # <<>>) =>
        /\ \A j \in cancelSnap[1].notStarted :
              /\ ~workers[j].wrote
              /\ workers[j].pc = "done" => workers[j].reply # "success"
        /\ \A j \in cancelSnap[1].completed :
              files[PathOf(j)] = cancelSnap[1].saved[j]

\* the first half of C4 alone
C4_NotStartedFail ==
    (cancelSnap # <<>> /\ workers # <<>>) =>
        \A j \in cancelSnap[1].notStarted :
            /\ ~workers[j].wrote
            /\ workers[j].pc = "done" => workers[j].reply # "success"

\* C7 as stated: when a run has ended, in success or in failure, exactly one
\* completion event has been pushed to the caller.
C7_CompletionOnce ==
    runPc \in {"success", "error"} => Len(completeEvents) = 1

\* C10 as stated: downloadImage never throws past its boundary; every failure,
\* a failure to open a page included, comes back as the outcome false.
C10_WorkerNeverThrows ==
    \A i \in DOMAIN workers :
        /\ workers[i].ret # "threw"
        /\ (workers[i].pc = "done" /\ workers[i].browser # "none")
              => workers[i].ret \in {"true", "false"}
\* C12: the flag changes to true only in a step of the cancel request, in
\* which no worker and no handler moves; it changes to false only in the step
\* that starts the next run; no step of a download worker changes it; and it
\* is false right after every run start.
C12_FlagLifecycle ==
    [][/\ (isDownloadCancelled' /\ ~isDownloadCancelled) =>
              UNCHANGED <<runPc, imageUrls, checkRejected, groupStart, workers, files,
                          domainFolder, successCount, failureCount, processedCount,
                          progressText, progressEvents, completeEvents>>
       /\ (~isDownloadCancelled' /\ isDownloadCancelled) =>
              (runPc \in {"success", "error"} /\ runPc' = "checking")
       /\ (runPc # "checking" /\ runPc' = "checking") => ~isDownloadCancelled'
       /\ workers' # workers => UNCHANGED isDownloadCancelled \/ runPc' = "checking"
      ]_vars

\* a run has started after a run in which the flag was set during the
\* downloads, and the flag is false again
C12_Witness ==
    /\ runPc = "checking"
    /\ ~isDownloadCancelled
    /\ cancelSnap # <<>>
    /\ cancelSnap[1].completed # {}

\* C13: a lone descriptor with identifier p and suffix 0, downloaded into a
\* folder that holds p_0.jpg and p_0_1.jpg, is saved as p_0_2.jpg; and in
\* general, when a worker settles on a path that path does not exist, while
\* every earlier candidate of the sequence suffix, suffix_1, suffix_2, ...
\* exists.
C13_FirstUnusedName ==
    [][/\ \A i \in DOMAIN workers' :
              /\ (i \in DOMAIN workers /\ workers[i].pc = "exists"
                      /\ workers'[i].pc # "exists")
                    => PathOf(i) \notin DOMAIN files
              /\ \A m \in 0..(workers'[i].n - 1) :
                    FilePath(imageUrls'[i].productId,
                             UniqueSuffix(imageUrls'[i].suffix, m)) \in DOMAIN files'
       /\ ( /\ Len(imageUrls') = 1
            /\ workers' # <<>>
            /\ workers'[1].wrote
            /\ FilePath(DlProductId, <<"0">>) \in DOMAIN files'
            /\ FilePath(DlProductId, <<"0", "_", "1">>) \in DOMAIN files'
            /\ files'[FilePath(DlProductId, <<"0">>)] = OldBytes
            /\ files'[FilePath(DlProductId, <<"0", "_", "1">>)] = OldBytes )
          => /\ FilePath(DlProductId, <<"0", "_", "2">>) \in DOMAIN files'
             /\ files'[FilePath(DlProductId, <<"0", "_", "2">>)] = imageUrls'[1].url
             /\ workers'[1].n = 2
      ]_vars

C13_Witness ==
    /\ Len(imageUrls) = 1
    /\ workers # <<>>
    /\ workers[1].wrote
    /\ workers[1].n = 2
    /\ FilePath(DlProductId, <<"0", "_", "2">>) \in DOMAIN files
    /\ files[FilePath(DlProductId, <<"0">>)] = OldBytes
    /\ files[FilePath(DlProductId, <<"0", "_", "1">>)] = OldBytes
\* C19 as stated: in the progress stream of one run no `checking` event
\* follows a `downloading` event, and a run that went through the download
\* stage has sent `downloading` events after its last `checking` event.
C19_StageChangesOnce ==
    /\ \A i \in 1..Len(progressEvents) : \A j \in 1..Len(progressEvents) :
          (i < j /\ progressEvents[i].stage = "downloading")
              => progressEvents[j].stage # "checking"
    /\ runPc = "success" =>
          \E j \in 1..Len(progressEvents) :
              /\ progressEvents[j].stage = "downloading"
              /\ \A i \in 1..Len(progressEvents) :
                    progressEvents[i].stage = "checking" => i < j

\* the downloads of the run that have completed, whatever their result
Completed == {i \in DOMAIN workers : workers[i].pc = "done"}

\* C20 as stated: in the downloading stage the counter the updates carry is
\* the number of downloads completed so far, the `current` of the updates
\* never decreases, and the last update of a finished stage has current =
\* total, also when downloads fail or their call rejects.
C20_DownloadProgress ==
    /\ \A j \in 1..Len(progressText) :
          /\ progressText[j].total = Len(imageUrls)
          /\ progressText[j].current <= progressText[j].total
    /\ \A j \in 1..(Len(progressText) - 1) :
          progressText[j].current <= progressText[j + 1].current
    /\ runPc \in {"downloading", "success"} => processedCount = Cardinality(Completed)
    /\ runPc = "success" =>
          /\ progressText # <<>>
          /\ progressText[Len(progressText)].current = Len(imageUrls)

\* what of C20 the code does keep: `current` counts the calls that resolved,
\* one update each, and never decreases
C20_CountsResolvedCalls ==
    /\ \A j \in 1..Len(progressText) :
          progressText[j].current = j /\ progressText[j].total = Len(imageUrls)
    /\ runPc \in {"downloading", "success"} =>
          /\ processedCount = Len(progressText)
          /\ processedCount
                = Cardinality({i \in Completed : workers[i].reply # "rejected"})
\* C21: a download-single-image call whose browser has launched while the
\* flag is set enters downloadImage and leaves it at once with false: no page
\* is opened, and the call goes on to close the browser and answer failure
\* without ever reaching the folder creation, the collision loop, the fetch or
\* the write.
C21_CancelledAtEntry ==
    [][\A i \in DOMAIN workers :
          /\ (i \in DOMAIN workers' /\ isDownloadCancelled /\ workers[i].pc = "launch"
                  /\ workers'[i].browser = "open")
                => /\ workers'[i].pc = "closeBrowser"
                   /\ workers'[i].ret = "false"
                   /\ workers'[i].page = "none"
                   /\ files' = files
          /\ (i \in DOMAIN workers' /\ workers[i].pc = "closeBrowser"
                  /\ workers[i].page = "none" /\ workers[i].ret = "false")
                => /\ workers'[i].pc \in {"closeBrowser", "done"}
                   /\ workers'[i].page = "none"
                   /\ workers'[i].n = 0
                   /\ ~workers'[i].wrote
                   /\ workers'[i].reply # "success"
                   /\ (workers'[i] # workers[i] => files' = files)
      ]_vars

\* the flag was set before the call was made; the call has answered failure
C21_Witness ==
    /\ cancelSnap # <<>>
    /\ \E i \in DOMAIN workers :
          /\ i \in cancelSnap[1].notStarted
          /\ workers[i].pc = "done"
          /\ workers[i].browser = "closed"
          /\ workers[i].page = "none"
          /\ workers[i].reply = "failure"

\* C22: fs.writeFile is never called with the flag set, and once the flag is
\* set a call that has not evaluated its third checkpoint yet never gets to
\* the write: it creates no file and does not end in success.
C22_NoWriteAfterCancel ==
    [][\A i \in DOMAIN workers :
          i \in DOMAIN workers' =>
              /\ (workers[i].pc # "write" /\ workers'[i].pc = "write")
                    => ~isDownloadCancelled /\ ~isDownloadCancelled'
              /\ (isDownloadCancelled
                      /\ workers[i].pc \in {"idle", "launch"} \cup BeforeThirdCheckpoint)
                    => /\ workers'[i].pc # "write"
                       /\ ~workers'[i].wrote
                       /\ workers'[i].ret # "true"
                       /\ (workers'[i] # workers[i] => files' = files)
      ]_vars

\* C22 seen from the end of the call: a download that was inside downloadImage,
\* before its third checkpoint, when the flag was set has written nothing and
\* has not answered success.
C22_InFlightFail ==
    (cancelSnap # <<>> /\ workers # <<>>) =>
        \A j \in cancelSnap[1].inFlight :
            /\ ~workers[j].wrote
            /\ workers[j].pc # "write"
            /\ workers[j].reply # "success"

\* the flag was set while a download was inside downloadImage, before its
\* third checkpoint; that download has now answered failure
C22_Witness ==
    /\ cancelSnap # <<>>
    /\ isDownloadCancelled
    /\ \E i \in DOMAIN workers :
          /\ i \in cancelSnap[1].inFlight
          /\ workers[i].pc = "done"
          /\ workers[i].page = "closed"
          /\ workers[i].reply = "failure"
          /\ ~workers[i].wrote
\* C26 as stated: the downloads follow the schedule of the checking stage:
\* the descriptor list is cut into the 4 contiguous slices of the batch split,
\* the first item of every slice is started when the stage begins, and an
\* item is started only when the item before it in its slice is done.
C26_SameSchedule ==
    workers # <<>> =>
        LET b == Batches(imageUrls, CONCURRENT_BROWSERS)
        IN  \A k \in 1..Len(b) :
                /\ b[k].products # <<>> => workers[b[k].start + 1].pc # "idle"
                /\ \A a \in (b[k].start + 1)..(b[k].end - 1) :
                      workers[a + 1].pc # "idle" => workers[a].pc = "done"

\* the schedule the code follows: groups of 4 consecutive descriptors, the
\* members of a group in flight together, a group started only when every
\* download of the groups before it is done
C26_GroupsOfFour ==
    workers # <<>> =>
        \A a \in 1..Len(workers) : \A c \in 1..Len(workers) :
            /\ ((a - 1) \div batchSize < (c - 1) \div batchSize /\ workers[c].pc # "idle")
                  => workers[a].pc = "done"
            /\ ((a - 1) \div batchSize = (c - 1) \div batchSize /\ workers[c].pc # "idle")
                  => workers[a].pc # "idle"

\* C29: when creating the domain folder fails the run ends in the error
\* status and no download-single-image call is ever made: no worker exists,
\* nothing is counted and the disk is as the run found it; no call is made
\* at all unless the folder was created.
C29_FolderFailureAborts ==
    /\ workers # <<>> => domainFolder
    /\ (runPc = "error" /\ ~checkRejected /\ Len(imageUrls) > 0) =>
          /\ ~domainFolder
          /\ status = <<ErrorStatus>>
          /\ workers = <<>>
          /\ processedCount = 0
          /\ progressText = <<>>
          /\ successCount = 0 /\ failureCount = 0
          /\ files \in FolderStates

C29_Witness ==
    /\ runPc = "error"
    /\ Len(imageUrls) = 2
    /\ ~checkRejected
    /\ ~domainFolder
    /\ status = <<ErrorStatus>>

\* C30: no descriptor gets more than one download-single-image call; when
\* downloadImagesInBatches has returned every descriptor has had exactly one,
\* successCount is the number of calls that answered success, failureCount
\* the number of all others, their sum the number of descriptors; and the
\* final status is of type success, reporting both counts when some but not
\* all downloads succeeded.
C30_CountsAndStatus ==
    /\ \A i \in DOMAIN workers : workers[i].calls <= 1
    /\ runPc = "success" =>
          /\ \A i \in DOMAIN workers : workers[i].calls = 1 /\ workers[i].pc = "done"
          /\ Len(workers) = Len(imageUrls)
          /\ successCount = Cardinality({i \in DOMAIN workers : workers[i].reply = "success"})
          /\ failureCount = Cardinality({i \in DOMAIN workers : workers[i].reply # "success"})
          /\ successCount + failureCount = Len(imageUrls)
          /\ status # <<>>
          /\ status[1].type = "success"
          /\ (0 < successCount /\ successCount < Len(imageUrls)) =>
                /\ status[1].successCount = successCount
                /\ status[1].failureCount = failureCount
                /\ status[1].total = Len(imageUrls)

\* five descriptors, two groups; three downloads succeeded, one failed, one
\* call rejected
C30_Witness ==
    /\ runPc = "success"
    /\ Len(imageUrls) = 5
    /\ successCount = 3
    /\ failureCount = 2
    /\ \E i \in DOMAIN workers : workers[i].reply = "rejected"
    /\ \E i \in DOMAIN workers : workers[i].reply = "failure"
    /\ status[1].type = "success"
    /\ status[1].failureCount = 2

\* ------------------------------------------------ claims on one resolve call
\* the srcs of the modelled pages whose file name carries a token
Tokens == {<<"1">>, <<"2">>}

HasToken(url) == \E tk \in Tokens : url = TokSrc(resolveId, tk)

\* the sub-sequence occurs in the sequence, by its prefix and its length
Contains(s, sub) ==
    \E pre \in 0..Len(s) :
        /\ pre + Len(sub) <= Len(s)
        /\ \A n \in 1..Len(sub) : s[pre + n] = sub[n]

\* C27 as stated: within one resolve call every returned descriptor has a
\* suffix distinct from the suffix of every other descriptor of that call,
\* whether it is a captured token or the fallback positional index.
C27_DistinctSuffixes ==
    resolved # <<>> =>
        \A i, j \in 1..Len(resolved[1]) :
            i # j => resolved[1][i].suffix # resolved[1][j].suffix

\* C27 amended: within one resolve call a descriptor whose file name carries
\* a token has that token as its suffix, and the descriptors that fall back
\* to the positional index have suffixes distinct from one another; a token
\* may equal another token or a fallback index.
C27_FallbackDistinct ==
    resolved # <<>> =>
        /\ \A i \in 1..Len(resolved[1]) : \A tk \in Tokens :
               resolved[1][i].url = TokSrc(resolveId, tk) => resolved[1][i].suffix = tk
        /\ \A i, j \in 1..Len(resolved[1]) :
               (i # j /\ ~HasToken(resolved[1][i].url) /\ ~HasToken(resolved[1][j].url))
                   => resolved[1][i].suffix # resolved[1][j].suffix

\* a call that returned two index-suffixed descriptors and a token-suffixed one
C27_Witness ==
    /\ resolved # <<>>
    /\ Len(resolved[1]) = 3
    /\ HasToken(resolved[1][1].url)
    /\ ~HasToken(resolved[1][2].url)
    /\ ~HasToken(resolved[1][3].url)

\* C28: every descriptor a resolve call returns carries the productId the
\* call was made for and a url that contains it; the returned urls are, in
\* page order, exactly the srcs that are present and contain the productId,
\* so a missing src or a src without the productId yields no descriptor.
C28_CarriesIdentifier ==
    resolved # <<>> =>
        /\ \A i \in 1..Len(resolved[1]) :
               /\ resolved[1][i].productId = resolveId
               /\ Contains(resolved[1][i].url, resolveId)
        /\ [i \in 1..Len(resolved[1]) |-> resolved[1][i].url]
               = SelectSeq(pageSrcs, LAMBDA s : s # <<>> /\ Contains(s, resolveId))

\* a page with a missing src, another product's image and one of the product
C28_Witness ==
    /\ resolved # <<>>
    /\ \E i \in 1..Len(pageSrcs) : pageSrcs[i] = <<>>
    /\ \E i \in 1..Len(pageSrcs) : pageSrcs[i] = OtherSrc
    /\ Len(resolved[1]) = 1

\* ---------------------------------------------- claims on the download groups
\* the download-single-image calls made and not yet settled
CallsInFlight == {j \in DOMAIN workers : workers[j].pc \notin {"idle", "done"}}

\* the number of the group of 4 descriptor j belongs to
GroupNo(j) == (j - 1) \div 4

\* C31: at every moment of the download stage at most 4
\* download-single-image calls are in flight, and a call of one group of 4 is
\* made only when every call of the groups before it has returned or
\* rejected, each descriptor being called at most once.
C31_GroupsInTurn ==
    /\ Cardinality(CallsInFlight) <= 4
    /\ \A b \in DOMAIN workers :
          /\ workers[b].calls <= 1
          /\ workers[b].calls = 0 <=> workers[b].pc = "idle"
          /\ workers[b].calls = 1 =>
                \A a \in DOMAIN workers : GroupNo(a) < GroupNo(b) => workers[a].pc = "done"

\* the fifth descriptor's call is in flight, the first group having ended
C31_Witness ==
    /\ runPc = "downloading"
    /\ Len(imageUrls) = 5
    /\ workers[5].pc = "launch"
    /\ \A a \in 1..4 : workers[a].pc = "done"

\* ------------------------------------------ claims on a cancel request's reach
\* the calls made after the cancel request: all of them when the request came
\* before the download stage, else those not yet in downloadImage at the time
MadeAfterRequest ==
    IF cancelSnap # <<>> THEN cancelSnap[1].notStarted \cap DOMAIN workers
    ELSE IF isDownloadCancelled THEN DOMAIN workers
    ELSE {}

\* C32: from a cancel request until check-images is invoked next, no
\* download-single-image call made after the request writes a file or answers
\* success, whether the request came during the checking stage, during the
\* downloads or after the run ended; and the flag is cleared by no step other
\* than the one that invokes check-images.
C32_CancelLastsUntilCheck ==
    /\ [](\A i \in MadeAfterRequest :
              /\ workers[i].pc # "write"
              /\ ~workers[i].wrote
              /\ workers[i].ret # "true"
              /\ workers[i].reply \in {"none", "failure", "rejected"}
              /\ workers[i].pc = "done" /\ workers[i].reply = "rejected"
                    => workers[i].browser # "closed")
    /\ [][(isDownloadCancelled /\ ~isDownloadCancelled')
              => (runPc # "checking" /\ runPc' = "checking")]_vars

\* the request came during the checking stage of a run; in its download
\* stage a call has answered failure and the folder holds what it held
C32_Witness ==
    /\ isDownloadCancelled
    /\ cancelSnap = <<>>
    /\ runPc = "downloading"
    /\ Len(imageUrls) >= 2
    /\ workers[1].pc = "done"
    /\ workers[1].reply = "failure"
    /\ workers[2].pc = "launch"
    /\ files \in FolderStates

\* ------------------------------------- claims on a download call's resources
\* C33: a download-single-image call that has launched a browser calls
\* browser.close() before it answers, and a downloadImage that has opened a
\* page calls page.close() before it ends, on every way out (each checkpoint,
\* no response, no body, an exception, success): while the call runs a page
\* is open only in an open browser, and a call that answers has closed both;
\* only a close() that itself rejects skips a close, and then the call rejects.
C33_CallCleansUp ==
    \A i \in DOMAIN workers :
        /\ (workers[i].page = "open" /\ workers[i].pc # "done")
              => workers[i].browser = "open"
        /\ workers[i].pc \in {"closeBrowser", "done"} =>
              /\ workers[i].page \in {"none", "closed"} \/ workers[i].ret = "threw"
              /\ workers[i].page = "none" => workers[i].n = 0 /\ ~workers[i].wrote
        /\ workers[i].pc = "done" =>
              /\ workers[i].browser = "none" =>
                    workers[i].page = "none" /\ workers[i].reply = "rejected"
              /\ workers[i].browser = "open" => workers[i].reply = "rejected"
              /\ workers[i].reply \in {"success", "failure"} =>
                    /\ workers[i].browser = "closed"
                    /\ workers[i].page \in {"none", "closed"}
              /\ workers[i].reply = "success" => workers[i].page = "closed"

\* one call has saved its image and another has returned false from inside
\* the try block, both with their page and browser closed
C33_Witness ==
    /\ Len(workers) = 2
    /\ workers[1].pc = "done" /\ workers[1].reply = "success"
    /\ workers[1].page = "closed" /\ workers[1].browser = "closed"
    /\ workers[2].pc = "done" /\ workers[2].reply = "failure"
    /\ workers[2].page = "closed" /\ workers[2].browser = "closed"

\* -------------------------------------------- claims on the descriptor list
\* the work items whose resolve call returned at least one descriptor
Contributors == {i \in 1..Len(outcome) : outcome[i].st = "returned" /\ outcome[i].urls # <<>>}

\* the sequence holds the block as a run of neighbours, in the block's order
HasBlock(seq, block) ==
    \E o \in 0..(Len(seq) - Len(block)) : SubSeq(seq, o + 1, o + Len(block)) = block

RECURSIVE SumLens(_)
SumLens(S) ==
    IF S = {} THEN 0
    ELSE LET i == CHOOSE x \in S : TRUE IN Len(outcome[i].urls) + SumLens(S \ {i})

\* C34: whatever the interleaving of the contexts, the list check-images
\* builds and returns holds exactly the descriptors of the resolve calls that
\* returned: each descriptor once, those of one call next to one another in
\* page order, nothing of an item still pending or thrown, and nothing else.
C34_ExactlyTheResolved ==
    /\ Len(allImageUrls) = SumLens(Contributors)
    /\ \A i \in Contributors :
          /\ HasBlock(allImageUrls, outcome[i].urls)
          /\ \A j \in 1..Len(outcome[i].urls) :
                CountIn(allImageUrls, outcome[i].urls[j]) = 1
    /\ \A j \in 1..Len(allImageUrls) :
          \E i \in Contributors : allImageUrls[j].productId = products[i].productId
    /\ chkResult # <<>> /\ chkResult[1].success = TRUE
          => chkResult[1].imageUrls = allImageUrls

\* check-images has returned a list in which the descriptors of a later item
\* come before those of an earlier one, a third item's call having thrown
C34_Witness ==
    /\ chkPc = "returned"
    /\ Len(products) >= 3
    /\ \E a, b, c \in 1..Len(products) :
          /\ a < b
          /\ outcome[c].st = "threw"
          /\ a \in Contributors /\ b \in Contributors
          /\ chkResult[1].imageUrls[1].productId = products[b].productId
          /\ \E j \in 2..Len(chkResult[1].imageUrls) :
                chkResult[1].imageUrls[j].productId = products[a].productId

\* ------------------------------------------------- claims on an empty result
\* C35: when check-images resolved with no descriptor, the start handler goes
\* from the check straight to its catch block: the run ends with the error
\* status, create-domain-folder is never invoked and no download-single-image
\* call is made, so nothing is counted and no progress text is written.
C35_NothingFoundIsError ==
    (~checkRejected /\ Len(imageUrls) = 0 /\ runPc \notin {"checking", "checked"}) =>
        /\ runPc = "error"
        /\ status = <<ErrorStatus>>
        /\ ~domainFolder
        /\ workers = <<>>
        /\ successCount = 0 /\ failureCount = 0 /\ processedCount = 0
        /\ progressText = <<>>

\* the run has ended on an empty list that check-images returned, not on a
\* rejection
C35_Witness ==
    /\ runPc = "error"
    /\ ~checkRejected
    /\ Len(imageUrls) = 0
    /\ progressEvents = CheckedStream
    /\ status = <<ErrorStatus>>

\* -------------------------------------------------------- claims on progress
\* C36: when every pending launch, navigation and file operation settles, a
\* check-images call that was invoked ends, returning or rejecting, with every
\* session it launched closed; downloadImagesInBatches, once started, returns
\* with every descriptor called once and settled; and a worker in the
\* collision loop leaves it.
C36_RunsEnd ==
    /\ (chkPc \in {"launching", "processing", "closingReturn", "closingThrow"})
          ~> (/\ chkPc \in {"returned", "rejected"}
              /\ \A b \in 1..Len(browsers) : browsers[b] = "closed")
    /\ (runPc = "downloading")
          ~> (/\ runPc = "success"
              /\ status # <<>>
              /\ Len(workers) = Len(imageUrls)
              /\ \A j \in 1..Len(workers) :
                    workers[j].calls = 1 /\ workers[j].pc = "done")
    /\ \A i \in 1..MaxLiveImages :
          (i \in DOMAIN workers /\ workers[i].pc = "exists")
              ~> (i \in DOMAIN workers /\ workers[i].pc # "exists")

\* a worker has gone twice round the collision loop and the run has returned
C36_Witness ==
    /\ runPc = "success"
    /\ \E i \in DOMAIN workers : workers[i].n = 2 /\ workers[i].wrote

====
